---- MODULE Spec2Model ----
(***************************************************************************)
(* word_generator (src/src/lib.rs): a Markov-chain ProbabilityTable built  *)
(* from a word list, and the random walk that generates words from it.     *)
(*                                                                         *)
(* A char is a one-element token: "a", "e_acute" (U+00E9, two bytes in     *)
(* UTF-8), "E_ACUTE" (U+00C9, its upper case), " " (the separator).        *)
(* A String is a sequence of chars.                                        *)
(***************************************************************************)
EXTENDS Integers, Sequences, FiniteSets, TLC

VARIABLES
    lines,        \* the reader's lines (the corpus), one word per line
    pc,           \* where the program is
    entry,        \* the public operation that was called
    accuracy,     \* the `accuracy` argument / ProbabilityTable.accuracy
    amount,       \* the `amount` argument of generate_words
    chars_list,   \* generate_table: the chars of add_space's output
    bound,        \* generate_table: chars_list.len() - accuracy, as computed
    charactere,   \* generate_table: the loop index
    table,        \* ProbabilityTable.table
    out,          \* generate_word: the buffer `out`
    vec_string,   \* generate_multiple_words: the words in generation order
    ret,          \* the Vec<String> the public operation returned
    walks,        \* number of generate_word calls made
    fault         \* the panic the program ended with, "none" without one

vars == <<lines, pc, entry, accuracy, amount, chars_list, bound, charactere,
          table, out, vec_string, ret, walks, fault>>

----------------------------------------------------------------------------
(* Bounds of the model *)

\* Spec
MaxWords == 3
MaxChars == 3
MaxAccuracy == 2
MaxAmount == 2
MaxOut == 2

\* LiveSpec
LiveMaxWords == 2
LiveMaxChars == 2
LiveMaxAccuracy == 2
LiveMaxAmount == 1

----------------------------------------------------------------------------
(* Characters and strings *)

InputChars == {"a", "E_ACUTE"}

SPACE == " "

\* usize arithmetic wraps modulo 2^w in a build without overflow checks; the
\* width is scaled down, every stream of the model being far shorter.
USIZE_MOD == 65536

\* char::to_lowercase, as str::to_lowercase applies it
to_lowercase_char(c) == IF c = "E_ACUTE" THEN "e_acute" ELSE c

to_lowercase(s) == [i \in 1..Len(s) |-> to_lowercase_char(s[i])]

\* char::len_utf8
len_utf8(c) == IF c \in {"e_acute", "E_ACUTE"} THEN 2 ELSE 1

RECURSIVE StrLen(_)
\* String::len: the length in bytes
StrLen(s) == IF s = <<>> THEN 0 ELSE len_utf8(Head(s)) + StrLen(Tail(s))

\* s.chars().count()
CharCount(s) == Len(s)

\* " ".repeat(n)
Repeat(n) == [i \in 1..n |-> SPACE]

RECURSIVE TrimStart(_)
TrimStart(s) == IF s # <<>> /\ Head(s) = SPACE THEN TrimStart(Tail(s)) ELSE s

RECURSIVE TrimEnd(_)
TrimEnd(s) ==
    IF s # <<>> /\ s[Len(s)] = SPACE THEN TrimEnd(SubSeq(s, 1, Len(s) - 1)) ELSE s

\* str::trim
Trim(s) == TrimEnd(TrimStart(s))

\* str::ends_with(' ')
EndsWithSpace(s) == s # <<>> /\ s[Len(s)] = SPACE

SeqsUpTo(S, n) == UNION {[1..k -> S] : k \in 0..n}

RECURSIVE CorporaOf(_, _)
\* the readers of exactly k lines holding at most n chars in all
CorporaOf(k, n) ==
    IF k = 0 THEN {<<>>}
    ELSE UNION {{<<w>> \o c : c \in CorporaOf(k - 1, n - Len(w))} :
                w \in SeqsUpTo(InputChars, n)}

Corpora == UNION {CorporaOf(k, MaxChars) : k \in 0..MaxWords}

----------------------------------------------------------------------------
(* add_space *)

RECURSIVE Concat(_)
Concat(ss) == IF ss = <<>> THEN <<>> ELSE Head(ss) \o Concat(Tail(ss))

\* the padding appended to the line instead of prefixed to it
SpacedLineSuffix(line, acc) == to_lowercase(line) \o Repeat(acc)

\* one line of add_space's map closure
SpacedLine(line, acc) == Repeat(acc) \o to_lowercase(line)

add_space(reader, acc) ==
    Concat([i \in 1..Len(reader) |-> SpacedLine(reader[i], acc)])

----------------------------------------------------------------------------
(* generate_table *)

EmptyTable == [k \in {} |-> 0]

\* chars_list.get(i..i + acc): None unless the range lies in the list
SliceInRange(chars, i, acc) == i + acc <= Len(chars)

\* the inclusive range i..=i + acc
KeyAtInclusive(chars, i, acc) == SubSeq(chars, i + 1, i + acc + 1)

\* the key collected from chars_list.get(i..i + acc), i counted from 0
KeyAt(chars, i, acc) == SubSeq(chars, i + 1, i + acc)

\* the count set to 1 instead of incremented
TallyOverwrite(t, key, value) ==
    IF key \in DOMAIN t
    THEN [t EXCEPT ![key] =
            IF value \in DOMAIN @
            THEN [@ EXCEPT ![value] = 1]
            ELSE @ @@ (value :> 1)]
    ELSE t @@ (key :> (value :> 1))

\* *table.entry(key).or_default().entry(value).or_default() += 1
Tally(t, key, value) ==
    IF key \in DOMAIN t
    THEN [t EXCEPT ![key] =
            IF value \in DOMAIN @
            THEN [@ EXCEPT ![value] = @ + 1]
            ELSE @ @@ (value :> 1)]
    ELSE t @@ (key :> (value :> 1))

\* ProbabilityTable::new, add_space, chars().collect() and the loop's range
BeginTable(acc) ==
    LET chars == add_space(lines, acc) IN
    /\ accuracy' = acc
    /\ table' = EmptyTable
    /\ chars_list' = chars
    /\ charactere' = 0
    /\ \/ /\ Len(chars) >= acc
          /\ bound' = Len(chars) - acc
          /\ pc' = "table"
          /\ fault' = "none"
       \/ \* overflow checks on: "attempt to subtract with overflow"
          /\ Len(chars) < acc
          /\ bound' = 0
          /\ pc' = "panic"
          /\ fault' = "SubtractOverflow"
       \/ \* overflow checks off: the subtraction wraps
          /\ Len(chars) < acc
          /\ bound' = (Len(chars) - acc) % USIZE_MOD
          /\ pc' = "table"
          /\ fault' = "none"

\* ProbabilityTable::from_reader
from_reader(acc) ==
    /\ pc = "idle"
    /\ entry' = "from_reader"
    /\ IF acc >= 1
       THEN BeginTable(acc)
       ELSE /\ pc' = "panic"
            /\ fault' = "AssertAccuracy"
            /\ accuracy' = acc
            /\ UNCHANGED <<chars_list, bound, charactere, table>>
    /\ UNCHANGED <<lines, amount, out, vec_string, ret, walks>>

\* the free function generate_words, up to its call of generate_table
generate_words(acc, amout) ==
    /\ pc = "idle"
    /\ entry' = "generate_words"
    /\ amount' = amout
    /\ BeginTable(acc)
    /\ UNCHANGED <<lines, out, vec_string, ret, walks>>

\* one iteration of generate_table's loop, or its return
generate_table ==
    /\ pc = "table"
    /\ IF charactere < bound
       THEN IF /\ SliceInRange(chars_list, charactere, accuracy)
               /\ charactere + accuracy < Len(chars_list)
            THEN /\ table' = Tally(table,
                                   KeyAt(chars_list, charactere, accuracy),
                                   chars_list[charactere + accuracy + 1])
                 /\ charactere' = charactere + 1
                 /\ UNCHANGED <<pc, fault>>
            ELSE \* .get(..) is None: unwrap panics
                 /\ pc' = "panic"
                 /\ fault' = "UnwrapNone"
                 /\ UNCHANGED <<table, charactere>>
       ELSE /\ pc' = IF entry = "from_reader" THEN "built" ELSE "words"
            /\ UNCHANGED <<table, charactere, fault>>
    /\ UNCHANGED <<lines, entry, accuracy, amount, chars_list, bound, out,
                   vec_string, ret, walks>>

----------------------------------------------------------------------------
(* generating words *)

\* ProbabilityTable::generate_words
table_generate_words(n) ==
    /\ pc = "built"
    /\ amount' = n
    /\ pc' = "words"
    /\ UNCHANGED <<lines, entry, accuracy, chars_list, bound, charactere,
                   table, out, vec_string, ret, walks, fault>>

\* the key of generate_word: the last table.accuracy chars of out
LastKey(buf, acc) == SubSeq(buf, Len(buf) - acc + 1, Len(buf))

\* the key of out.sort_by_key(|a| a.len()): String::len
SortKey(a) == StrLen(a)

RECURSIVE InsertByKey(_, _)
\* insert w after every element whose key is <= the key of w
InsertByKey(sorted, w) ==
    IF sorted = <<>> THEN <<w>>
    ELSE IF SortKey(sorted[Len(sorted)]) <= SortKey(w) THEN Append(sorted, w)
    ELSE Append(InsertByKey(SubSeq(sorted, 1, Len(sorted) - 1), w),
                sorted[Len(sorted)])

RECURSIVE sort_by_key(_)
\* slice::sort_by_key: a stable sort
sort_by_key(v) ==
    IF v = <<>> THEN <<>>
    ELSE InsertByKey(sort_by_key(SubSeq(v, 1, Len(v) - 1)), v[Len(v)])

\* the inclusive range 0..=number
InRangeInclusive(i, number) == i <= number

\* the range 0..number of generate_multiple_words
InRange(i, number) == i < number

\* generate_multiple_words: the loop head (the call of generate_word starts
\* with out = " ".repeat(accuracy)), or the return to the public operation
generate_multiple_words ==
    /\ pc = "words"
    /\ IF InRange(walks, amount)
       THEN /\ out' = Repeat(accuracy)
            /\ walks' = walks + 1
            /\ pc' = "word"
            /\ UNCHANGED ret
       ELSE /\ ret' = IF entry = "generate_words"
                      THEN sort_by_key(vec_string) ELSE vec_string
            /\ pc' = "done"
            /\ UNCHANGED <<out, walks>>
    /\ UNCHANGED <<lines, entry, accuracy, amount, chars_list, bound,
                   charactere, table, vec_string, fault>>

\* the exit test made on the trimmed buffer
BreakAfterTrim(buf) == EndsWithSpace(Trim(buf))

\* the loop's exit test of generate_word
Break(buf) == EndsWithSpace(buf)

\* a rolling buffer: once more than accuracy + MaxOut + 1 chars long, out
\* loses its two oldest chars. The loop of generate_word reads only the last
\* `accuracy` chars of out, so no step changes; a word longer than the buffer
\* loses its head. Every step changes the length of the buffer.
Rolling(buf) ==
    IF Len(buf) > accuracy + MaxOut + 1 THEN Tail(Tail(buf)) ELSE buf

\* one iteration of generate_word's loop, and its return when the loop breaks
WordStep(next_letter, rolling) ==
    LET key == LastKey(out, accuracy) IN
    /\ pc = "word"
    /\ IF key \in DOMAIN table
       THEN /\ next_letter \in DOMAIN table[key]
            /\ table[key][next_letter] > 0
            /\ LET grown == Append(out, next_letter) IN
               /\ out' = IF rolling THEN Rolling(grown) ELSE grown
               /\ IF Break(grown)
                  THEN /\ vec_string' = Append(vec_string, Trim(grown))
                       /\ pc' = "words"
                  ELSE UNCHANGED <<vec_string, pc>>
            /\ UNCHANGED fault
       ELSE \* table.table.get(key) is None: unwrap panics
            /\ next_letter = SPACE
            /\ pc' = "panic"
            /\ fault' = "MissingContext"
            /\ UNCHANGED <<out, vec_string>>
    /\ UNCHANGED <<lines, entry, accuracy, amount, chars_list, bound,
                   charactere, table, ret, walks>>

Chars == {to_lowercase_char(c) : c \in InputChars} \cup {SPACE}

generate_word ==
    /\ Len(out) < accuracy + MaxOut
    /\ \E next_letter \in Chars : WordStep(next_letter, FALSE)

----------------------------------------------------------------------------

\* nothing has been called yet
Idle ==
    /\ pc = "idle"
    /\ entry = "none"
    /\ accuracy = 0
    /\ amount = 0
    /\ chars_list = <<>>
    /\ bound = 0
    /\ charactere = 0
    /\ table = EmptyTable
    /\ out = <<>>
    /\ vec_string = <<>>
    /\ ret = <<>>
    /\ walks = 0
    /\ fault = "none"

Init ==
    /\ lines \in Corpora
    /\ Idle

Next ==
    \/ \E acc \in 0..MaxAccuracy : from_reader(acc)
    \/ \E acc \in 0..MaxAccuracy, n \in 0..MaxAmount : generate_words(acc, n)
    \/ generate_table
    \/ \E n \in 0..MaxAmount : table_generate_words(n)
    \/ generate_multiple_words
    \/ generate_word

Spec == Init /\ [][Next]_vars

----------------------------------------------------------------------------
(* The walk of generate_word without a bound on its length, for termination *)

generate_word_rolling ==
    \E next_letter \in Chars : WordStep(next_letter, TRUE)

\* the step of generate_word that looks up the key tallied at position i of
\* the stream and draws the letter tallied for it there
WordStepFrom(i) ==
    /\ pc = "word"
    /\ i + accuracy < Len(chars_list)
    /\ LastKey(out, accuracy) = KeyAt(chars_list, i, accuracy)
    /\ WordStep(chars_list[i + accuracy + 1], TRUE)

LiveCorpora == UNION {CorporaOf(k, LiveMaxChars) : k \in 0..LiveMaxWords}

\* no stream of LiveSpec has more positions that a char follows
MaxTallies == (LiveMaxWords - 1) * LiveMaxAccuracy + LiveMaxChars

LiveInit ==
    /\ lines \in LiveCorpora
    /\ Idle

LiveNext ==
    \/ \E acc \in 0..LiveMaxAccuracy : from_reader(acc)
    \/ generate_table
    \/ \E n \in 0..LiveMaxAmount : table_generate_words(n)
    \/ generate_multiple_words
    \/ generate_word_rolling

\* WeightedIndex::sample of a thread_rng: a letter of positive weight is drawn
\* again and again from a context that is looked up again and again. Every
\* (context, letter) of positive weight was tallied at a position of the stream.
FairChoice == \A i \in 0..(MaxTallies - 1) : SF_vars(WordStepFrom(i))

LiveSpec == LiveInit /\ [][LiveNext]_vars /\ FairChoice

----------------------------------------------------------------------------
(* Vocabulary of the properties *)

\* generate_table has returned its table
TableFinished ==
    \/ pc \in {"built", "words", "word", "done"}
    \/ fault = "MissingContext"

HasNonEmptyWord == \E i \in 1..Len(lines) : Len(lines[i]) >= 1

RECURSIVE PaddedStream(_, _)
\* each word lowercased and prefixed with n spaces, the words back-to-back
PaddedStream(ws, n) ==
    IF ws = <<>> THEN <<>>
    ELSE Repeat(n) \o to_lowercase(Head(ws)) \o PaddedStream(Tail(ws), n)

\* the positions (from 0) up to `last` where key is a window of the stream
WindowsOf(stream, key, last) ==
    {i \in 0..last : SubSeq(stream, i + 1, i + Len(key)) = key}

RECURSIVE SumOver(_, _)
SumOver(f, S) ==
    IF S = {} THEN 0
    ELSE LET x == CHOOSE y \in S : TRUE IN f[x] + SumOver(f, S \ {x})

\* the sum of all counts of one inner map
SumCounts(f) == SumOver(f, DOMAIN f)

\* the keys ks of a vector are in non-decreasing order
IsSorted(ks) == \A i \in 1..(Len(ks) - 1) : ks[i] <= ks[i + 1]

CharCounts(v) == [i \in 1..Len(v) |-> CharCount(v[i])]

ByteLens(v) == [i \in 1..Len(v) |-> StrLen(v[i])]

\* r is v sorted ascending by number of chars, equal numbers in their order
\* in v
IsStableSortByChars(r, v) ==
    /\ Len(r) = Len(v)
    /\ IsSorted(CharCounts(r))
    /\ \E p \in Permutations(1..Len(v)) :
          /\ \A i \in 1..Len(v) : r[i] = v[p[i]]
          /\ \A i, j \in 1..Len(v) :
                (i < j /\ CharCount(r[i]) = CharCount(r[j])) => p[i] < p[j]

\* the contexts one step of a walk leads to from context k
Successors(k) ==
    IF k \in DOMAIN table
    THEN {LastKey(Append(k, c), accuracy) : c \in DOMAIN table[k] \ {SPACE}}
    ELSE {}

RECURSIVE ReachableFrom(_)
\* the contexts a walk can look up, starting in one of S
ReachableFrom(S) ==
    LET T == S \cup UNION {Successors(k) : k \in S}
    IN IF T = S THEN S ELSE ReachableFrom(T)

EmitsSeparator(k) == k \in DOMAIN table /\ SPACE \in DOMAIN table[k]

\* a separator-emitting context is reachable from every context reachable
\* from the all-separator start
Terminable ==
    \A k \in ReachableFrom({Repeat(accuracy)}) :
        \E d \in ReachableFrom({k}) : EmitsSeparator(d)

----------------------------------------------------------------------------
(* The claims *)

\* C1: every public operation that builds a table rejects accuracy < 1 with a
\* failure before any table construction or sampling begins.
C1_RejectsAccuracyBelowOne ==
    (pc # "idle" /\ accuracy < 1) =>
        /\ pc = "panic"
        /\ fault = "AssertAccuracy"
        /\ table = EmptyTable
        /\ walks = 0

\* C2: with a corpus holding at least one non-empty word, no walk of
\* generate_word ever looks up a context that is not a key of the table.
C2_NoMissingContext ==
    HasNonEmptyWord => fault # "MissingContext"

\* C3: ProbabilityTable::generate_words returns its words in non-decreasing
\* length order (by chars or by bytes), as the free function does.
C3_MethodResultSorted ==
    (pc = "done" /\ entry = "from_reader") =>
        (IsSorted(CharCounts(ret)) \/ IsSorted(ByteLens(ret)))

\* C4: the free function generate_words returns the generated words sorted
\* ascending by their number of chars, equal lengths in generation order.
C4_SortedByCharCount ==
    (pc = "done" /\ entry = "generate_words" /\ accuracy >= 1) =>
        IsStableSortByChars(ret, vec_string)

\* C5: a call for n words that returns has made exactly n walks and returns
\* exactly n strings; for n = 0 no walk is made, so no table lookup happens.
C5_ExactlyAmountWords ==
    /\ pc = "done" =>
          /\ Len(ret) = amount
          /\ Len(vec_string) = amount
          /\ walks = amount
    /\ walks <= amount
    /\ amount = 0 => (pc # "word" /\ fault # "MissingContext")

C5_Witness ==
    /\ pc = "done"
    /\ amount = 2
    /\ Len(ret) = 2

\* C6: with accuracy >= 1, at every step of the construction and in the
\* finished table, every key has exactly `accuracy` chars.
C6_KeysHaveAccuracyChars ==
    accuracy >= 1 => \A key \in DOMAIN table : Len(key) = accuracy

C6_Witness ==
    /\ pc = "table"
    /\ accuracy = 2
    /\ charactere < bound
    /\ Cardinality(DOMAIN table) >= 2

\* C7: for an empty corpus the builder computes no underflowed loop bound,
\* makes no out-of-bounds access and ends in no panic, at build time or later.
C7_EmptyCorpusRejected ==
    (lines = <<>> /\ pc # "idle" /\ accuracy >= 1) =>
        /\ bound <= Len(chars_list)
        /\ fault \notin {"SubtractOverflow", "UnwrapNone", "MissingContext"}

\* C8: with accuracy >= 1 and at least one non-empty word, the finished table
\* has the all-separator key, so the first lookup of every walk succeeds.
C8_AllSeparatorKeyPresent ==
    (accuracy >= 1 /\ HasNonEmptyWord) =>
        /\ TableFinished => Repeat(accuracy) \in DOMAIN table
        /\ fault = "MissingContext" => Len(out) > accuracy

C8_Witness ==
    /\ pc = "word"
    /\ accuracy = 2
    /\ HasNonEmptyWord
    /\ Len(out) = accuracy + 1

\* C9 as stated: for every key of the finished table, the sum of its counts is
\* the number of positions where the key is a window of the padded stream,
\* the final window included.
C9_CountsEveryWindow ==
    (TableFinished /\ accuracy >= 1) =>
        LET stream == PaddedStream(lines, accuracy) IN
        \A key \in DOMAIN table :
            SumCounts(table[key]) =
                Cardinality(WindowsOf(stream, key, Len(stream) - accuracy))

\* C9 amended: for every key of the finished table, the sum of its counts is
\* the number of positions where the key is a window of the padded stream
\* that a char follows; the final window of the stream is not counted.
C9_CountsFollowedWindows ==
    (TableFinished /\ accuracy >= 1) =>
        LET stream == PaddedStream(lines, accuracy) IN
        \A key \in DOMAIN table :
            SumCounts(table[key]) =
                Cardinality(WindowsOf(stream, key, Len(stream) - accuracy - 1))

C9_Witness ==
    /\ TableFinished
    /\ accuracy >= 1
    /\ LastKey(chars_list, accuracy) \in DOMAIN table
    /\ SumCounts(table[LastKey(chars_list, accuracy)]) >= 2

\* C10: under fair random choice a walk on a terminable table eventually
\* returns its word, and a walk never goes on after it appended a separator.
C10_WalkTerminates ==
    /\ [][(pc = "word" /\ pc' = "word") => ~EndsWithSpace(out')]_vars
    /\ [][(pc = "word" /\ pc' = "words") =>
            /\ EndsWithSpace(out')
            /\ Len(vec_string') = Len(vec_string) + 1]_vars
    /\ (pc = "word" /\ Terminable) ~> (pc = "words")

C10_Witness ==
    /\ pc = "words"
    /\ Terminable
    /\ vec_string # <<>>
    /\ Len(vec_string[1]) >= MaxOut

====
